---- MODULE Spec2Model ----
(***************************************************************************)
(* Model of lima::Eiger::Interface (src/src/EigerInterface.cpp): the       *)
(* acquisition orchestration prepareAcq / startAcq / stopAcq / reset /     *)
(* getStatus over its collaborators Camera, SavingCtrlObj, Stream and      *)
(* Decompress.                                                             *)
(*                                                                         *)
(* A handler is one action.  The collaborator calls a handler makes are    *)
(* written down, in program order, as a sequence of call names; Exec runs  *)
(* them one after the other on a record of the collaborators' state, and   *)
(* stops at the first call that throws.  Which calls throw in one handler  *)
(* invocation is an input of the action (a set of call names).             *)
(***************************************************************************)
EXTENDS Integers, Sequences, FiniteSets, TLC

\* ---- bounds of the model ------------------------------------------------
MaxFrames == 2      \* total-frame count ranges over 1..MaxFrames
MaxSerie  == 2      \* serie ids are counted modulo MaxSerie
MaxStarts == 3      \* startAcq calls followed within one prepared acquisition

\* ---- program constants --------------------------------------------------
GuardDelay == 2     \* usleep(2e6): seconds waited after a disarm

\* ---- value sets ---------------------------------------------------------
CameraStatus == {"Ready", "Exposure", "Armed", "Fault", "Initializing"}
TrigModes    == {"IntTrig", "IntTrigMult", "ExtTrigSingle"}
SavingStatus == {"IDLE", "RUNNING", "ERROR"}
HwStatus     == {"Ready", "Exposure", "Readout", "Fault", "Config"}
ResetLevels  == {"SoftReset", "HardReset"}

\* The collaborator commands that may throw: the steps of prepareAcq up to the
\* stream armed wait, and the stop commands.  The getters, setActive,
\* resetStatistics, setSerieId and the start commands are taken to succeed.
Failable == {"cam.disarm", "cam.deleteMemoryFiles", "cam.prepareAcq",
             "cam.getSerieId", "stream.waitArmed",
             "cam.stopAcq", "saving.stop", "stream.stop"}

\* the commands of Failable among `calls`, and "" for none of them
Throwing(calls) ==
  {c \in Failable : \E i \in 1..Len(calls) : calls[i] = c} \cup {""}

\* The inputs of a handler that makes the calls `body` and, in its catch
\* block, `handler`: the set of its calls that throw when made.  One call of
\* the body and one of the catch block are all that can throw in one
\* invocation, since each of the two ends at its first exception.
FaultSets(body, handler) ==
  {{b, h} \ {""} : b \in Throwing(body), h \in Throwing(handler)}

VARIABLES
  camStatus,        \* Camera::getStatus()
  trigMode,         \* Camera::getTrigMode()
  nbFrames,         \* Camera::getNbFrames()
  nbTrigFrames,     \* Camera::getNbTriggeredFrames()
  camSerieId,       \* Camera::getSerieId()
  savingActive,     \* m_saving->isActive()
  savingStatus,     \* m_saving->getStatus()
  savingSerieId,    \* serie id held by m_saving
  streamActive,     \* active flag of m_stream
  decompressActive, \* active flag of m_decompress
  streamRunning,    \* m_stream->isRunning()
  lastOp,           \* the handler of Interface called last ("" before any)
  trace,            \* the collaborator calls that handler made, in order
  failed,           \* the calls of trace that threw
  caught,           \* the exception prepareAcq's catch block caught, or ""
  thrown,           \* the exception the caller received, or ""
  status,           \* the out parameter of the last getStatus
  prepared,         \* the last prepareAcq succeeded and no stop followed
  seqMult,          \* ... and the trigger mode is IntTrigMult since then
  seqStarts,        \* startAcq calls of that IntTrigMult sequence
  seqDataStarts,    \* saving/stream starts issued by them
  hwRoiSupport,     \* m_roi->hasHwRoiSupport()
  capList,          \* m_cap_list
  cap_list          \* the out parameter of the last getCapList

devVars  == <<camStatus, trigMode, nbFrames, nbTrigFrames, camSerieId,
              savingActive, savingStatus, savingSerieId,
              streamActive, decompressActive, streamRunning>>
callVars == <<lastOp, trace, failed, caught, thrown, status>>
histVars == <<prepared, seqMult, seqStarts, seqDataStarts>>
objVars  == <<hwRoiSupport, capList, cap_list>>
vars     == <<devVars, callVars, histVars, objVars>>

\* ---- sequences of calls -------------------------------------------------
InTrace(c, tr) == \E i \in 1..Len(tr) : tr[i] = c

Count(c, tr) == Cardinality({i \in 1..Len(tr) : tr[i] = c})

\* position of the first c in tr, 0 if there is none
Index(c, tr) ==
  IF InTrace(c, tr)
    THEN CHOOSE i \in 1..Len(tr) : tr[i] = c /\ \A j \in 1..(i-1) : tr[j] # c
    ELSE 0

\* time elapsed in the handler when its i-th call is issued
TimeAt(i, tr) == GuardDelay * Cardinality({j \in 1..(i-1) : tr[j] = "usleep"})

\* ---- the collaborators' state as one record -----------------------------
Dev ==
  [camStatus |-> camStatus, trigMode |-> trigMode, nbFrames |-> nbFrames,
   nbTrigFrames |-> nbTrigFrames, camSerieId |-> camSerieId,
   savingActive |-> savingActive, savingStatus |-> savingStatus,
   savingSerieId |-> savingSerieId, streamActive |-> streamActive,
   decompressActive |-> decompressActive, streamRunning |-> streamRunning,
   use_filewriter |-> savingActive, serie_id |-> 0]

\* ---- effects of the collaborator calls ----------------------------------
CamDisarm(st)   == [st EXCEPT !.camStatus = "Ready"]

CamPrepareAcq(st) ==
  [st EXCEPT !.camStatus = "Armed", !.nbTrigFrames = 0,
             !.camSerieId = (st.camSerieId + 1) % MaxSerie]

CamStartAcq(st) ==
  [st EXCEPT !.camStatus = "Exposure",
             !.nbTrigFrames = IF st.trigMode = "IntTrigMult"
                                   /\ st.nbTrigFrames < st.nbFrames
                                THEN st.nbTrigFrames + 1
                                ELSE st.nbTrigFrames]

CamStopAcq(st)  == [st EXCEPT !.camStatus = "Ready"]

SavingStart(st) == [st EXCEPT !.savingStatus = "RUNNING"]

SavingStop(st)  == [st EXCEPT !.savingStatus = "IDLE"]

StreamStart(st) == [st EXCEPT !.streamRunning = TRUE]

StreamStop(st)  == [st EXCEPT !.streamRunning = FALSE]

\* int serie_id; m_cam.getSerieId(serie_id);
GetSerieId(st)  == [st EXCEPT !.serie_id = st.camSerieId]

\* m_saving->setSerieId(serie_id);
SetSerieId(st)  == [st EXCEPT !.savingSerieId = st.serie_id]

\* m_stream->setActive(!use_filewriter);
StreamSetActive(st) == [st EXCEPT !.streamActive = ~st.use_filewriter]

\* faulty variant: the negation is forgotten for the decompression task
DecompressSetActive_same(st) ==
  [st EXCEPT !.decompressActive = st.use_filewriter]

\* m_decompress->setActive(!use_filewriter);
DecompressSetActive(st) == [st EXCEPT !.decompressActive = ~st.use_filewriter]

Effect(st, c) ==
  CASE c = "cam.disarm"            -> CamDisarm(st)
    [] c = "cam.prepareAcq"        -> CamPrepareAcq(st)
    [] c = "cam.startAcq"          -> CamStartAcq(st)
    [] c = "cam.stopAcq"           -> CamStopAcq(st)
    [] c = "saving.start"          -> SavingStart(st)
    [] c = "saving.stop"           -> SavingStop(st)
    [] c = "stream.start"          -> StreamStart(st)
    [] c = "stream.stop"           -> StreamStop(st)
    [] c = "cam.getSerieId"        -> GetSerieId(st)
    [] c = "saving.setSerieId"     -> SetSerieId(st)
    [] c = "stream.setActive"      -> StreamSetActive(st)
    [] c = "decompress.setActive"  -> DecompressSetActive(st)
    [] OTHER                       -> st

\* ---- running a straight-line block of calls -----------------------------
\* r = [st, trace, exc]: the block stops at the first call that throws
RECURSIVE Exec(_, _, _)
Exec(r, calls, F) ==
  IF calls = <<>> \/ r.exc # "" THEN r
  ELSE LET c == Head(calls) IN
       IF c \in F
         THEN [st |-> r.st, trace |-> Append(r.trace, c), exc |-> c]
         ELSE Exec([st |-> Effect(r.st, c), trace |-> Append(r.trace, c),
                    exc |-> ""], Tail(calls), F)

Begin(st) == [st |-> st, trace |-> <<>>, exc |-> ""]

\* ---- Interface::prepareAcq ----------------------------------------------
\* faulty variant: the wait after the disarm is left out
DisarmCalls_nowait(cam_status, use_filewriter) ==
  IF cam_status = "Armed" THEN <<"cam.disarm">> ELSE <<>>

\* if (m_cam.getStatus() == Camera::Armed) { disarm; if (use_filewriter) usleep }
DisarmCalls(cam_status, use_filewriter) ==
  IF cam_status = "Armed"
    THEN <<"cam.disarm">> \o (IF use_filewriter THEN <<"usleep">> ELSE <<>>)
    ELSE <<>>

\* faulty variant: the storage is cleared on the stream path instead
ClearCalls_inverted(use_filewriter) ==
  IF use_filewriter THEN <<>> ELSE <<"cam.deleteMemoryFiles">>

\* if (use_filewriter) m_cam.deleteMemoryFiles();
ClearCalls(use_filewriter) ==
  IF use_filewriter THEN <<"cam.deleteMemoryFiles">> ELSE <<>>

\* setActive of stream and decompression, resetStatistics
FlagCalls == <<"stream.setActive", "decompress.setActive",
               "stream.resetStatistics">>

\* faulty variant: the flags are set and the statistics reset first
HeadCalls_flagsfirst(cam_status, use_filewriter) ==
  FlagCalls \o DisarmCalls(cam_status, use_filewriter)
    \o ClearCalls(use_filewriter)

\* the statements before the try block
HeadCalls(cam_status, use_filewriter) ==
  DisarmCalls(cam_status, use_filewriter) \o ClearCalls(use_filewriter)
    \o FlagCalls

\* faulty variant: the armed wait is made on both data paths
TryCalls_waitalways(use_filewriter) ==
  <<"cam.prepareAcq", "cam.getSerieId", "saving.setSerieId",
    "stream.waitArmed">>

\* faulty variant: the serie id is read before the camera is prepared
TryCalls_idfirst(use_filewriter) ==
  <<"cam.getSerieId", "saving.setSerieId", "cam.prepareAcq">>
    \o (IF use_filewriter THEN <<>> ELSE <<"stream.waitArmed">>)

\* the try block
TryCalls(use_filewriter) ==
  <<"cam.prepareAcq", "cam.getSerieId", "saving.setSerieId">>
    \o (IF use_filewriter THEN <<>> ELSE <<"stream.waitArmed">>)

\* the catch block, before its throw
CatchCalls == <<"saving.stop", "stream.stop">>

\* what leaves the catch block: `throw;` rethrows the caught exception,
\* unless a call of the block threw first
Rethrow(caught_exc, handler_exc) ==
  IF handler_exc # "" THEN handler_exc ELSE caught_exc

\* the whole handler on collaborators' state st with throwing calls F
PrepareRun(st, F) ==
  LET head == Exec(Begin(st), HeadCalls(st.camStatus, st.use_filewriter), F)
      try  == Exec(head, TryCalls(st.use_filewriter), F)
      hdl  == Exec([try EXCEPT !.exc = ""], CatchCalls, F)
  IN  IF head.exc # ""
        THEN [st |-> head.st, trace |-> head.trace, caught |-> "",
              thrown |-> head.exc, failed |-> {head.exc}]
      ELSE IF try.exc = ""
        THEN [st |-> try.st, trace |-> try.trace, caught |-> "",
              thrown |-> "", failed |-> {}]
      ELSE [st |-> hdl.st, trace |-> hdl.trace, caught |-> try.exc,
            thrown |-> Rethrow(try.exc, hdl.exc),
            failed |-> {try.exc, hdl.exc} \ {""}]

\* ---- Interface::startAcq ------------------------------------------------
\* faulty variant: && for ||
StartGate_and(trig_mode, nb_trig_frames) ==
  (trig_mode # "IntTrigMult") /\ (nb_trig_frames = 0)

\* faulty variant: the triggered-frame count is not looked at
StartGate_always(trig_mode, nb_trig_frames) == TRUE

\* if ((trig_mode != IntTrigMult) || (nb_trig_frames == 0))
StartGate(trig_mode, nb_trig_frames) ==
  (trig_mode # "IntTrigMult") \/ (nb_trig_frames = 0)

\* if (m_saving->isActive()) m_saving->start(); else m_stream->start();
DataStartCalls(saving_active) ==
  IF saving_active THEN <<"saving.start">> ELSE <<"stream.start">>

\* faulty variant: the camera is started before the data retrieval
StartCalls_camfirst(trig_mode, nb_trig_frames, saving_active) ==
  <<"cam.startAcq">>
    \o (IF StartGate(trig_mode, nb_trig_frames)
         THEN DataStartCalls(saving_active) ELSE <<>>)

StartCalls(trig_mode, nb_trig_frames, saving_active) ==
  (IF StartGate(trig_mode, nb_trig_frames)
     THEN DataStartCalls(saving_active) ELSE <<>>)
    \o <<"cam.startAcq">>

StartRun(st, F) ==
  Exec(Begin(st), StartCalls(st.trigMode, st.nbTrigFrames, st.savingActive), F)

\* ---- Interface::stopAcq -------------------------------------------------
\* faulty variant: the stream is left running
StopCalls_nostream == <<"cam.stopAcq", "saving.stop">>

StopCalls == <<"cam.stopAcq", "saving.stop", "stream.stop">>

StopRun(st, F) == Exec(Begin(st), StopCalls, F)

\* ---- Interface::getStatus -----------------------------------------------
\* faulty variant: the trigger mode is not looked at
MultTrigInProgress_anymode(trig_mode, tot_nb_frames, nb_trig_frames) ==
  nb_trig_frames # tot_nb_frames

MultTrigInProgress(trig_mode, tot_nb_frames, nb_trig_frames) ==
  IF trig_mode = "IntTrigMult" THEN nb_trig_frames # tot_nb_frames ELSE FALSE

SavingToHwStatus(saving_status) ==
  CASE saving_status = "IDLE"    -> "Ready"
    [] saving_status = "RUNNING" -> "Readout"
    [] OTHER                     -> "Fault"

GetStatusOf(st) ==
  CASE st.camStatus = "Ready" ->
         IF MultTrigInProgress(st.trigMode, st.nbFrames, st.nbTrigFrames)
           THEN "Ready"
         ELSE IF st.savingActive THEN SavingToHwStatus(st.savingStatus)
         ELSE IF st.streamRunning THEN "Readout"
         ELSE "Ready"
    [] st.camStatus = "Exposure"      -> "Exposure"
    [] st.camStatus = "Armed"         -> "Ready"
    [] st.camStatus = "Fault"         -> "Fault"
    [] st.camStatus = "Initializing"  -> "Config"

\* ---- Interface::Interface and Interface::~Interface ----------------------
\* the sub-objects in the order the constructor creates them
CtorNews == <<"m_det_info", "m_roi", "m_sync", "m_saving", "m_event",
              "m_stream", "m_decompress">>

\* faulty variant: the ROI capability is pushed whatever the detector model
CtorCapList_always(hw_roi) ==
  <<"det_info", "roi", "sync", "saving", "event", "buffer", "decompress">>

\* the m_cap_list.push_back calls of the constructor
CtorCapList(hw_roi) ==
  <<"det_info">> \o (IF hw_roi THEN <<"roi">> ELSE <<>>)
    \o <<"sync", "saving", "event", "buffer", "decompress">>

\* the delete statements of the destructor
DtorDeletes == <<"m_det_info", "m_roi", "m_sync", "m_saving", "m_stream",
                 "m_decompress">>

\* the Interface object has not been destroyed
Alive == lastOp # "~Interface"

\* ---- the state after construction ---------------------------------------
\* for a detector model with or without hardware ROI
InitLife ==
  /\ camStatus \in {"Initializing", "Ready"}
  /\ trigMode = "IntTrig"
  /\ nbFrames = 1
  /\ nbTrigFrames = 0
  /\ camSerieId = 0
  /\ savingActive = FALSE
  /\ savingStatus = "IDLE"
  /\ savingSerieId = 0
  /\ streamActive \in BOOLEAN
  /\ decompressActive \in BOOLEAN
  /\ streamRunning = FALSE
  /\ lastOp = ""
  /\ trace = <<>>
  /\ failed = {}
  /\ caught = ""
  /\ thrown = ""
  /\ status = ""
  /\ prepared = FALSE
  /\ seqMult = FALSE
  /\ seqStarts = 0
  /\ seqDataStarts = 0
  /\ hwRoiSupport \in BOOLEAN
  /\ capList = CtorCapList(hwRoiSupport)
  /\ cap_list = <<>>

\* for a detector model with hardware ROI: no handler but getCapList reads
\* the capability list
Init == InitLife /\ hwRoiSupport

\* the collaborators' state becomes st
Install(st) ==
  /\ camStatus' = st.camStatus
  /\ trigMode' = st.trigMode
  /\ nbFrames' = st.nbFrames
  /\ nbTrigFrames' = st.nbTrigFrames
  /\ camSerieId' = st.camSerieId
  /\ savingActive' = st.savingActive
  /\ savingStatus' = st.savingStatus
  /\ savingSerieId' = st.savingSerieId
  /\ streamActive' = st.streamActive
  /\ decompressActive' = st.decompressActive
  /\ streamRunning' = st.streamRunning

\* the capability list is left alone and no getCapList result is pending
RegistryKept ==
  /\ cap_list' = <<>>
  /\ UNCHANGED <<hwRoiSupport, capList>>

\* no handler of Interface is the last thing that happened
NoCall ==
  /\ lastOp' = ""
  /\ trace' = <<>>
  /\ failed' = {}
  /\ caught' = ""
  /\ thrown' = ""
  /\ status' = ""
  /\ RegistryKept

\* ---- the handlers -------------------------------------------------------
PrepareAcq ==
  \E F \in FaultSets(HeadCalls(camStatus, savingActive)
                        \o TryCalls(savingActive), CatchCalls) :
    \E r \in {PrepareRun(Dev, F)} :
      /\ Install(r.st)
      /\ lastOp' = "prepareAcq"
      /\ trace' = r.trace
      /\ failed' = r.failed
      /\ caught' = r.caught
      /\ thrown' = r.thrown
      /\ status' = ""
      /\ prepared' = (r.thrown = "")
      /\ seqMult' = (r.thrown = "" /\ trigMode = "IntTrigMult")
      /\ seqStarts' = 0
      /\ seqDataStarts' = 0
      /\ RegistryKept

StartAcq ==
  /\ seqStarts < MaxStarts
  /\ \E r \in {StartRun(Dev, {})} :
      /\ Install(r.st)
      /\ lastOp' = "startAcq"
      /\ trace' = r.trace
      /\ failed' = {}
      /\ caught' = ""
      /\ thrown' = r.exc
      /\ status' = ""
      /\ UNCHANGED <<prepared, seqMult>>
      /\ seqStarts' = IF seqMult THEN seqStarts + 1 ELSE 0
      /\ seqDataStarts' =
           IF seqMult
             THEN seqDataStarts + Count("saving.start", r.trace)
                                + Count("stream.start", r.trace)
             ELSE 0
      /\ RegistryKept

StopBody(op) ==
  \E F \in FaultSets(StopCalls, <<>>) :
    \E r \in {StopRun(Dev, F)} :
      /\ Install(r.st)
      /\ lastOp' = op
      /\ trace' = r.trace
      /\ failed' = {r.exc} \ {""}
      /\ caught' = ""
      /\ thrown' = r.exc
      /\ status' = ""
      /\ prepared' = FALSE
      /\ seqMult' = FALSE
      /\ seqStarts' = 0
      /\ seqDataStarts' = 0
      /\ RegistryKept

StopAcq == StopBody("stopAcq")

\* faulty variant: a reset stops the camera only
ResetRun_camonly(st, reset_level, F) ==
  Exec(Begin(st), <<"cam.stopAcq">>, F)

\* Interface::reset(reset_level): stopAcq();
ResetRun(st, reset_level, F) == StopRun(st, F)

Reset ==
  \E reset_level \in ResetLevels :
    \E F \in FaultSets(StopCalls, <<>>) :
      \E r \in {ResetRun(Dev, reset_level, F)} :
        /\ Install(r.st)
        /\ lastOp' = "reset"
        /\ trace' = r.trace
        /\ failed' = {r.exc} \ {""}
        /\ caught' = ""
        /\ thrown' = r.exc
        /\ status' = ""
        /\ prepared' = FALSE
        /\ seqMult' = FALSE
        /\ seqStarts' = 0
        /\ seqDataStarts' = 0
        /\ RegistryKept

\* faulty variant: the query consumes the stream's running flag
GetStatus_latching ==
  /\ status' = GetStatusOf(Dev)
  /\ lastOp' = "getStatus"
  /\ trace' = <<>>
  /\ failed' = {}
  /\ caught' = ""
  /\ thrown' = ""
  /\ streamRunning' = FALSE
  /\ UNCHANGED <<camStatus, trigMode, nbFrames, nbTrigFrames, camSerieId,
                 savingActive, savingStatus, savingSerieId, streamActive,
                 decompressActive, histVars>>
  /\ RegistryKept

GetStatus ==
  /\ status' = GetStatusOf(Dev)
  /\ lastOp' = "getStatus"
  /\ trace' = <<>>
  /\ failed' = {}
  /\ caught' = ""
  /\ thrown' = ""
  /\ UNCHANGED <<devVars, histVars>>
  /\ RegistryKept

\* Interface::getCapList: cap_list = m_cap_list;
GetCapList ==
  /\ cap_list' = capList
  /\ lastOp' = "getCapList"
  /\ trace' = <<>>
  /\ failed' = {}
  /\ caught' = ""
  /\ thrown' = ""
  /\ status' = ""
  /\ UNCHANGED <<devVars, histVars, hwRoiSupport, capList>>

\* Interface::~Interface: the object is gone afterwards
Destroy ==
  /\ lastOp' = "~Interface"
  /\ trace' = DtorDeletes
  /\ failed' = {}
  /\ caught' = ""
  /\ thrown' = ""
  /\ status' = ""
  /\ UNCHANGED <<devVars, histVars>>
  /\ RegistryKept

\* ---- the environment: configuration and the detector's own progress -----
SetSavingActive ==
  /\ savingActive' = ~savingActive
  /\ NoCall
  /\ UNCHANGED <<camStatus, trigMode, nbFrames, nbTrigFrames, camSerieId,
                 savingStatus, savingSerieId, streamActive, decompressActive,
                 streamRunning, histVars>>

SetTrigMode ==
  \E m \in TrigModes \ {trigMode} :
    /\ trigMode' = m
    /\ seqMult' = FALSE
    /\ seqStarts' = 0
    /\ seqDataStarts' = 0
    /\ NoCall
    /\ UNCHANGED <<camStatus, nbFrames, nbTrigFrames, camSerieId, savingActive,
                   savingStatus, savingSerieId, streamActive, decompressActive,
                   streamRunning, prepared>>

SetNbFrames ==
  \E n \in (1..MaxFrames) \ {nbFrames} :
    /\ n >= nbTrigFrames
    /\ nbFrames' = n
    /\ NoCall
    /\ UNCHANGED <<camStatus, trigMode, nbTrigFrames, camSerieId, savingActive,
                   savingStatus, savingSerieId, streamActive, decompressActive,
                   streamRunning, histVars>>

DetectorEvent ==
  \E s \in CameraStatus \ {camStatus} :
    /\ camStatus' = s
    /\ NoCall
    /\ UNCHANGED <<trigMode, nbFrames, nbTrigFrames, camSerieId, savingActive,
                   savingStatus, savingSerieId, streamActive, decompressActive,
                   streamRunning, histVars>>

SavingEvent ==
  \E s \in SavingStatus \ {savingStatus} :
    /\ savingStatus' = s
    /\ NoCall
    /\ UNCHANGED <<camStatus, trigMode, nbFrames, nbTrigFrames, camSerieId,
                   savingActive, savingSerieId, streamActive, decompressActive,
                   streamRunning, histVars>>

StreamEnd ==
  /\ streamRunning
  /\ streamRunning' = FALSE
  /\ NoCall
  /\ UNCHANGED <<camStatus, trigMode, nbFrames, nbTrigFrames, camSerieId,
                 savingActive, savingStatus, savingSerieId, streamActive,
                 decompressActive, histVars>>

Next ==
  \/ PrepareAcq
  \/ StartAcq
  \/ StopAcq
  \/ Reset
  \/ GetStatus
  \/ SetSavingActive
  \/ SetTrigMode
  \/ SetNbFrames
  \/ DetectorEvent
  \/ SavingEvent
  \/ StreamEnd

Spec == Init /\ [][Next]_vars

\* The life of one Interface object, from construction to destruction, on
\* either detector model: its public operations and the configuration of the
\* saving flag and of the trigger mode.
NextLife ==
  \/ Alive /\ PrepareAcq
  \/ Alive /\ StartAcq
  \/ Alive /\ StopAcq
  \/ Alive /\ Reset
  \/ Alive /\ GetStatus
  \/ Alive /\ GetCapList
  \/ Alive /\ SetSavingActive
  \/ Alive /\ SetTrigMode
  \/ Alive /\ Destroy

SpecLife == InitLife /\ [][NextLife]_vars

\* =========================================================================
\* Properties
\* =========================================================================

DataStarts(tr) == Count("saving.start", tr) + Count("stream.start", tr)

\* the decision table of the composite status, row by row
DecisionTable(det, trig, triggered, total, saving_on, saving_sub, stream_on) ==
  IF det = "Exposure" THEN "Exposure"
  ELSE IF det = "Armed" THEN "Ready"
  ELSE IF det = "Fault" THEN "Fault"
  ELSE IF det = "Initializing" THEN "Config"
  ELSE IF trig = "IntTrigMult" /\ triggered # total THEN "Ready"
  ELSE IF saving_on /\ saving_sub = "IDLE" THEN "Ready"
  ELSE IF saving_on /\ saving_sub = "RUNNING" THEN "Readout"
  ELSE IF saving_on THEN "Fault"
  ELSE IF stream_on THEN "Readout"
  ELSE "Ready"

\* C1: whatever the detector status, trigger mode, frame counts, saving flag,
\* saving sub-status and stream-running flag are, getStatus returns the
\* composite status of the decision table.
C1_StatusTable ==
  lastOp = "getStatus" =>
    status = DecisionTable(camStatus, trigMode, nbTrigFrames, nbFrames,
                           savingActive, savingStatus, streamRunning)

C1_Witness ==
  /\ lastOp = "getStatus"
  /\ camStatus = "Ready"
  /\ trigMode = "IntTrigMult"
  /\ nbTrigFrames = nbFrames
  /\ savingActive
  /\ savingStatus = "RUNNING"
  /\ status = "Readout"

\* C2: startAcq starts a data-retrieval subsystem iff the trigger mode is not
\* IntTrigMult or no frame was triggered yet; it then starts exactly one,
\* saving when saving is active and the stream otherwise; else it starts none.
C2_StartGating ==
  [][lastOp' = "startAcq" =>
       LET first == trigMode # "IntTrigMult" \/ nbTrigFrames = 0 IN
         /\ (DataStarts(trace') > 0) <=> first
         /\ first => /\ DataStarts(trace') = 1
                     /\ InTrace("saving.start", trace') <=> savingActive
                     /\ InTrace("stream.start", trace') <=> ~savingActive
         /\ ~first => trace' = <<"cam.startAcq">>]_vars

C2_Witness ==
  /\ lastOp = "startAcq"
  /\ trigMode = "IntTrigMult"
  /\ nbTrigFrames > 0
  /\ trace = <<"cam.startAcq">>

\* C3: in an IntTrigMult sequence (successful prepareAcq, then startAcq calls
\* without a stop) the data retrieval is started exactly once, by the first
\* startAcq; the later ones neither stop nor start it.
C3_StartedOnce ==
  (seqMult /\ seqStarts >= 1) =>
    /\ seqDataStarts = 1
    /\ (lastOp = "startAcq" /\ seqStarts >= 2) => trace = <<"cam.startAcq">>

C3_Witness ==
  /\ seqMult
  /\ seqStarts >= 2
  /\ seqDataStarts = 1
  /\ lastOp = "startAcq"
  /\ nbTrigFrames = 2

\* C4: once prepareAcq has set the active flags, the stream's and the
\* decompression's flag are equal and are the negation of the saving-active
\* flag, whether the call then succeeds or fails.
C4_FlagsAgree ==
  (lastOp = "prepareAcq" /\ InTrace("decompress.setActive", trace)) =>
    /\ streamActive = decompressActive
    /\ streamActive = ~savingActive

C4_Witness ==
  /\ lastOp = "prepareAcq"
  /\ thrown = "stream.waitArmed"
  /\ InTrace("decompress.setActive", trace)
  /\ ~savingActive
  /\ streamActive
  /\ decompressActive

\* C5: when prepareAcq finds the detector Armed and saving is active, the
\* disarm is followed by the whole guard delay, and only then is the
\* detector storage cleared.
C5_DelayBeforeClear ==
  (lastOp = "prepareAcq" /\ savingActive /\ InTrace("cam.disarm", trace)
     /\ InTrace("cam.deleteMemoryFiles", trace)) =>
    /\ Index("cam.disarm", trace) < Index("usleep", trace)
    /\ Index("usleep", trace) < Index("cam.deleteMemoryFiles", trace)
    /\ TimeAt(Index("cam.deleteMemoryFiles", trace), trace)
         >= TimeAt(Index("cam.disarm", trace), trace) + GuardDelay

C5_Witness ==
  /\ lastOp = "prepareAcq"
  /\ savingActive
  /\ thrown = ""
  /\ SubSeq(trace, 1, 3) = <<"cam.disarm", "usleep", "cam.deleteMemoryFiles">>

\* C6: when camera prepare, the serie-id step or the stream armed wait fails
\* in prepareAcq, saving stop and stream stop are both invoked before the
\* caller gets the failure, and the caller gets the original failure.
C6_RollbackThenOriginal ==
  (lastOp = "prepareAcq"
     /\ caught \in {"cam.prepareAcq", "cam.getSerieId", "stream.waitArmed"}) =>
    /\ Index(caught, trace) < Index("saving.stop", trace)
    /\ Index(caught, trace) < Index("stream.stop", trace)
    /\ thrown = caught

\* C7: stopAcq executes camera stop, saving stop and stream stop, each of them
\* even when an earlier one fails.
C7_AllStopsRun ==
  lastOp = "stopAcq" =>
    /\ InTrace("cam.stopAcq", trace)
    /\ InTrace("saving.stop", trace)
    /\ InTrace("stream.stop", trace)

\* C8: when camera prepare or the stream armed wait fails and a rollback step
\* fails too, the caller of prepareAcq still gets the original failure and
\* the other rollback step is still performed.
C8_RollbackDoesNotMask ==
  (lastOp = "prepareAcq"
     /\ caught \in {"cam.prepareAcq", "stream.waitArmed"}
     /\ failed \cap {"saving.stop", "stream.stop"} # {}) =>
    /\ thrown = caught
    /\ InTrace("saving.stop", trace)
    /\ InTrace("stream.stop", trace)

\* C9: the subsystem startAcq starts is the one prepareAcq selected, whatever
\* happened to the saving-active flag in between: the stream is not started
\* with its active flag false, saving is not started with the stream and the
\* decompression active.
C9_PathFixedAtPrepare ==
  (prepared /\ lastOp = "startAcq") =>
    /\ InTrace("stream.start", trace) => streamActive
    /\ InTrace("saving.start", trace) => ~(streamActive /\ decompressActive)

\* C10: startAcq issues the camera start exactly once, whatever the trigger
\* mode, the triggered-frame count and the saving flag are, and after the
\* start of saving or of the stream when it issues one.
C10_CameraStartLast ==
  lastOp = "startAcq" =>
    /\ Count("cam.startAcq", trace) = 1
    /\ \A c \in {"saving.start", "stream.start"} :
         InTrace(c, trace) => Index(c, trace) < Index("cam.startAcq", trace)

C10_Witness ==
  /\ lastOp = "startAcq"
  /\ trigMode = "ExtTrigSingle"
  /\ savingActive
  /\ trace = <<"saving.start", "cam.startAcq">>

\* C11: on the stream path prepareAcq succeeds only after the stream reported
\* armed, the wait coming after the camera prepare; when the wait fails the
\* call fails; on the saving path no armed wait is made.
C11_ArmedWait ==
  lastOp = "prepareAcq" =>
    /\ savingActive => ~InTrace("stream.waitArmed", trace)
    /\ (~savingActive /\ thrown = "") =>
         /\ trace[Len(trace)] = "stream.waitArmed"
         /\ "stream.waitArmed" \notin failed
    /\ InTrace("stream.waitArmed", trace) =>
         /\ InTrace("cam.prepareAcq", trace)
         /\ Index("cam.prepareAcq", trace) < Index("stream.waitArmed", trace)
    /\ "stream.waitArmed" \in failed => thrown # ""

C11_Witness ==
  /\ lastOp = "prepareAcq"
  /\ ~savingActive
  /\ thrown = ""
  /\ Index("cam.prepareAcq", trace) > 0
  /\ Index("cam.prepareAcq", trace) < Index("stream.waitArmed", trace)

\* C13: when no stop fails, stopAcq issues camera stop, saving stop, stream
\* stop in that order and leaves the camera stopped, saving and the stream not
\* running and everything else as it was; a second stopAcq changes nothing.
C13_StopIdempotent ==
  [][(lastOp' = "stopAcq" /\ thrown' = "") =>
       /\ trace' = <<"cam.stopAcq", "saving.stop", "stream.stop">>
       /\ camStatus' = "Ready"
       /\ savingStatus' = "IDLE"
       /\ ~streamRunning'
       /\ UNCHANGED <<trigMode, nbFrames, nbTrigFrames, camSerieId,
                      savingActive, savingSerieId, streamActive,
                      decompressActive>>
       /\ (lastOp = "stopAcq" /\ thrown = "") => UNCHANGED devVars]_vars

C13_Witness ==
  /\ lastOp = "stopAcq"
  /\ thrown = ""
  /\ trace = <<"cam.stopAcq", "saving.stop", "stream.stop">>
  /\ streamActive
  /\ decompressActive
  /\ ~streamRunning
  /\ savingStatus = "IDLE"
  /\ nbTrigFrames > 0

PrepareOrder(tr) ==
  \A c \in {"cam.disarm", "cam.deleteMemoryFiles"} :
    \A d \in {"stream.setActive", "decompress.setActive",
              "stream.resetStatistics", "cam.prepareAcq"} :
      (InTrace(c, tr) /\ InTrace(d, tr)) => Index(c, tr) < Index(d, tr)

\* C15 as stated: in every prepareAcq the disarm is issued iff the camera is
\* Armed at the start, the storage clear exactly once if saving is active and
\* never otherwise, both before the flags, the statistics reset and the
\* camera prepare.
C15_DisarmAndClear ==
  [][lastOp' = "prepareAcq" =>
       /\ Count("cam.disarm", trace') = IF camStatus = "Armed" THEN 1 ELSE 0
       /\ Count("cam.deleteMemoryFiles", trace')
            = IF savingActive THEN 1 ELSE 0
       /\ PrepareOrder(trace')]_vars

\* C15 as amended: the same, the storage clear being issued exactly once when
\* saving is active and the disarm, if there was one, did not fail.
C15_DisarmAndClearUnlessDisarmFails ==
  [][lastOp' = "prepareAcq" =>
       /\ Count("cam.disarm", trace') = IF camStatus = "Armed" THEN 1 ELSE 0
       /\ Count("cam.deleteMemoryFiles", trace')
            = IF savingActive /\ "cam.disarm" \notin failed' THEN 1 ELSE 0
       /\ PrepareOrder(trace')]_vars

C15_Witness ==
  /\ lastOp = "prepareAcq"
  /\ savingActive
  /\ Len(trace) >= 5
  /\ trace[1] = "cam.deleteMemoryFiles"
  /\ trace[2] = "stream.setActive"
  /\ trace[5] = "cam.prepareAcq"

\* C16: after a successful prepareAcq the serie id held by saving is the one
\* the camera reports for the acquisition just prepared, on both data paths;
\* it is read from the camera after the camera prepare.
C16_SerieIdPropagated ==
  (lastOp = "prepareAcq" /\ thrown = "") =>
    /\ savingSerieId = camSerieId
    /\ Index("cam.prepareAcq", trace) < Index("cam.getSerieId", trace)
    /\ Index("cam.getSerieId", trace) < Index("saving.setSerieId", trace)

C16_Witness ==
  /\ lastOp = "prepareAcq"
  /\ thrown = ""
  /\ savingActive
  /\ camSerieId = 1
  /\ savingSerieId = 1

\* C18: a failure of the disarm or of the storage clear aborts prepareAcq
\* without rollback: no saving stop, no stream stop, the stream and
\* decompression flags as before, no statistics reset, no camera prepare.
C18_EarlyFailureAborts ==
  [][(lastOp' = "prepareAcq"
        /\ failed' \cap {"cam.disarm", "cam.deleteMemoryFiles"} # {}) =>
       /\ thrown' \in {"cam.disarm", "cam.deleteMemoryFiles"}
       /\ trace'[Len(trace')] = thrown'
       /\ \A c \in {"saving.stop", "stream.stop", "stream.setActive",
                    "decompress.setActive", "stream.resetStatistics",
                    "cam.prepareAcq"} : ~InTrace(c, trace')
       /\ UNCHANGED <<streamActive, decompressActive>>]_vars

C18_Witness ==
  /\ lastOp = "prepareAcq"
  /\ thrown = "cam.deleteMemoryFiles"
  /\ trace = <<"cam.disarm", "usleep", "cam.deleteMemoryFiles">>
  /\ streamActive
  /\ decompressActive

\* ---- C12 ----------------------------------------------------------------
\* C12: the capability list built by the constructor holds a ROI entry
\* exactly when the detector model reports hardware-ROI support, its entries
\* are in the order det_info, roi (if present), sync, saving, event, buffer,
\* decompress, and it is the same list after every operation; getCapList
\* returns that list.
C12_CapList ==
  /\ InTrace("roi", capList) <=> hwRoiSupport
  /\ capList = IF hwRoiSupport
                 THEN <<"det_info", "roi", "sync", "saving", "event",
                        "buffer", "decompress">>
                 ELSE <<"det_info", "sync", "saving", "event", "buffer",
                        "decompress">>
  /\ lastOp = "getCapList" => cap_list = capList

\* getCapList on a model without hardware ROI, after an acquisition was
\* prepared and started
C12_Witness ==
  /\ lastOp = "getCapList"
  /\ ~hwRoiSupport
  /\ cap_list = <<"det_info", "sync", "saving", "event", "buffer",
                  "decompress">>
  /\ camStatus = "Exposure"
  /\ prepared

\* ---- C14 ----------------------------------------------------------------
\* C14: a getStatus call leaves the camera, the saving object, the active
\* flags, the stream's running flag and the capability list as they were,
\* and a getStatus call that follows a getStatus call returns the same
\* status.
C14_GetStatusFrame ==
  [][lastOp' = "getStatus" =>
       /\ UNCHANGED <<devVars, hwRoiSupport, capList>>
       /\ lastOp = "getStatus" => status' = status]_vars

\* getStatus between startAcq and stopAcq of a streamed acquisition
C14_Witness ==
  /\ lastOp = "getStatus"
  /\ status = "Exposure"
  /\ prepared
  /\ streamRunning
  /\ camStatus = "Exposure"

\* ---- C17 ----------------------------------------------------------------
RECURSIVE Reverse(_)
Reverse(seq) ==
  IF seq = <<>> THEN <<>> ELSE Append(Reverse(Tail(seq)), Head(seq))

\* C17: the destructor deletes every sub-object the constructor created,
\* each once, in the reverse of the order of creation.
C17_ReverseDestruction ==
  lastOp = "~Interface" => trace = Reverse(CtorNews)

\* ---- C19 ----------------------------------------------------------------
\* C19: for every reset level, reset issues the calls of stopAcq (camera
\* stop, saving stop, stream stop), reaches the state stopAcq reaches from
\* the same state, and leaves the active flags, the serie ids and the
\* capability list unchanged.
C19_ResetIsStop ==
  [][lastOp' = "reset" =>
       /\ \E F \in FaultSets(StopCalls, <<>>) :
            \E r \in {StopRun(Dev, F)} :
              /\ trace' = r.trace
              /\ thrown' = r.exc
              /\ Install(r.st)
       /\ thrown' = "" =>
            trace' = <<"cam.stopAcq", "saving.stop", "stream.stop">>
       /\ UNCHANGED <<streamActive, decompressActive, savingActive,
                      camSerieId, savingSerieId, hwRoiSupport, capList>>
       /\ prepared' = FALSE]_vars

\* a reset that returned during a running acquisition
C19_Witness ==
  /\ lastOp = "reset"
  /\ thrown = ""
  /\ trace = <<"cam.stopAcq", "saving.stop", "stream.stop">>
  /\ camStatus = "Ready"
  /\ savingSerieId = 1

====
